---- MODULE Spec2Model ----
(***************************************************************************)
(* A model of the etag crate: the fixed-capacity byte buffer of            *)
(* src/src/buffer.rs and the EntityTag value type of src/src/lib.rs        *)
(* (constructors, Display, FromStr, the comparison predicates, from_hash). *)
(*                                                                         *)
(* Text is a sequence of bytes (UTF-8, as a Rust &str): an ASCII character *)
(* is one byte below 128, a non-ASCII character is several bytes of 128    *)
(* and above.                                                              *)
(***************************************************************************)
EXTENDS Integers, Sequences, FiniteSets

VARIABLES
    debug,      \* whether the build has debug assertions (cfg(debug_assertions))
    op,         \* the last operation applied
    argWeak,    \* the weak flag given to the last constructor
    argText,    \* the text given to the last constructor or to parse
    made,       \* the outcome of the last constructor
    wire,       \* the text to_string() produced from made
    parsed,     \* the outcome of the last parse (or of the second from_hash call)
    cmp,        \* the operands and outcomes of the last comparison
    hashLen,    \* from_hash: bytes.len() of the bytes hashed
    hashVal,    \* from_hash: what the hash function returns for those bytes
    buf,        \* buffer.rs: the Buffer under test
    before,     \* buffer.rs: the Buffer as it was before the last write_bytes
    input,      \* buffer.rs: the bytes given to the last write_bytes
    ret,        \* buffer.rs: what the last write_bytes returned
    concat,     \* buffer.rs: the inputs of the calls that returned true, in order
    calls,      \* buffer.rs: how many write_bytes calls were made
    rejected    \* buffer.rs: how many of them returned false

vars == <<debug, op, argWeak, argText, made, wire, parsed, cmp, hashLen, hashVal,
          buf, before, input, ret, concat, calls, rejected>>

tagVars == <<op, argWeak, argText, made, wire, parsed, cmp, hashLen, hashVal>>
bufVars == <<buf, before, input, ret, concat, calls, rejected>>

(***************************************************************************)
(* Bounds of the model.                                                    *)
(***************************************************************************)
\* Longest sequence of characters put before the padding of an input text.
MaxHead == 3
\* Input lengths near the capacity: from capacity - NearCap to capacity + OverCap.
NearCap == 4
OverCap == 2
\* write_bytes calls in one run, and the longest short input to write_bytes.
MaxCalls == 3
MaxWrite == 2

(***************************************************************************)
(* Characters.                                                             *)
(***************************************************************************)
DQUOTE == 34
UpperW == 87
Slash == 47
LowerW == 119
LowerA == 97
Digit0 == 48
Digit1 == 49
Digit2 == 50
Minus == 45
\* U+308D, the second character of the test's non-ASCII tag, in UTF-8.
NonAscii == <<227, 130, 141>>

\* One character is the sequence of its bytes.
Chars == {<<DQUOTE>>, <<UpperW>>, <<Slash>>, <<LowerW>>, <<LowerA>>, NonAscii}

RECURSIVE Flatten(_)
Flatten(cs) == IF cs = <<>> THEN <<>> ELSE Head(cs) \o Flatten(Tail(cs))

Fill(c, n) == [i \in 1..n |-> c]

CharSeqs(n) == UNION {[1..k -> Chars] : k \in 0..n}

(***************************************************************************)
(* src/src/buffer.rs                                                       *)
(***************************************************************************)
MAX_SIZE == 64

\* What reading a byte of the storage that was never written gives.
Uninit == -1

\* The storage (MaybeUninit<[u8; MAX_SIZE]>) is a function from the positions
\* 1..MAX_SIZE that were written to their bytes: none at first.
Buffer_new == [inner |-> <<>>, len |-> 0]

\* ptr::copy_nonoverlapping(bytes, inner + off, n)
copy_nonoverlapping(inner, off, bytes, size) ==
    [i \in DOMAIN inner \cup {j \in 1..size : off < j /\ j <= off + Len(bytes)} |->
        IF off < i /\ i <= off + Len(bytes) THEN bytes[i - off] ELSE inner[i]]

\* slice::from_raw_parts(inner, n)
from_raw_parts(inner, n) ==
    [i \in 1..n |-> IF i \in DOMAIN inner THEN inner[i] ELSE Uninit]

available_len(self) == MAX_SIZE - self.len

\* write_bytes with the destination taken after the length was advanced.
write_bytes_late_ptr(self, bytes) ==
    LET off == (self.len + Len(bytes)) % 256
    IN  IF Len(bytes) > available_len(self)
        THEN [buf |-> self, ret |-> FALSE]
        ELSE IF Len(bytes) # 0
             THEN [buf |-> [inner |-> copy_nonoverlapping(self.inner, off, bytes, MAX_SIZE),
                            len |-> off],
                   ret |-> TRUE]
             ELSE [buf |-> self, ret |-> TRUE]

\* The destination pointer is taken at offset self.len before the length is advanced.
write_bytes(self, bytes) ==
    IF Len(bytes) > available_len(self)
    THEN [buf |-> self, ret |-> FALSE]
    ELSE IF Len(bytes) # 0
         THEN [buf |-> [inner |-> copy_nonoverlapping(self.inner, self.len, bytes, MAX_SIZE),
                        len |-> (self.len + (Len(bytes) % 256)) % 256],
               ret |-> TRUE]
         ELSE [buf |-> self, ret |-> TRUE]

as_slice(self) == from_raw_parts(self.inner, self.len)

as_str(self) == as_slice(self)

\* impl PartialEq for Buffer
Buffer_eq(self, other) == self.len = other.len /\ as_slice(self) = as_slice(other)

WriteLens == (0..MaxWrite) \cup ((MAX_SIZE - 2)..(MAX_SIZE + 1))
WriteInputs == {Fill(c, n) : c \in {Digit1, Digit2}, n \in WriteLens}


(***************************************************************************)
(* src/src/lib.rs: the tag's buffer, str_buf::StrBuf::<64>.  It holds at   *)
(* most 64 bytes; push_str writes what fits of its argument, cut at a      *)
(* character boundary, and returns the number of bytes written (the        *)
(* callers compare that number with the argument's length).                *)
(***************************************************************************)
\* The largest interior the test suite expects the parser to accept.
TEST_MAX == 62

Capacity == 64

StrBuf_new == [inner |-> <<>>, cursor |-> 0]

remaining(self) == Capacity - self.cursor

\* str::is_char_boundary: the byte at the index is not a continuation byte.
is_char_boundary(text, n) ==
    \/ n = 0
    \/ n = Len(text)
    \/ n < Len(text) /\ ~(text[n + 1] \in 128..191)

RECURSIVE shift_by_char_boundary(_, _)
shift_by_char_boundary(text, size) ==
    IF is_char_boundary(text, size) THEN size
    ELSE shift_by_char_boundary(text, size - 1)

Min(x, y) == IF x < y THEN x ELSE y

push_str(self, text) ==
    LET size == shift_by_char_boundary(text, Min(Len(text), remaining(self)))
    IN  [buf |-> [inner |-> copy_nonoverlapping(self.inner, self.cursor,
                                                SubSeq(text, 1, size), Capacity),
                  cursor |-> (self.cursor + size) % 256],
         written |-> size]

StrBuf_as_str(self) == from_raw_parts(self.inner, self.cursor)

\* impl fmt::Write for StrBuf: an error when not all of s was written.
write_str(self, s) ==
    LET r == push_str(self, s)
    IN  [buf |-> r.buf, ok |-> (r.written = Len(s))]

\* write!(buf, ...): the pieces are written in order, stopping at the first error.
RECURSIVE write_fmt(_, _)
write_fmt(self, pieces) ==
    IF pieces = <<>> THEN [buf |-> self, ok |-> TRUE]
    ELSE LET r == write_str(self, Head(pieces))
         IN  IF r.ok THEN write_fmt(r.buf, Tail(pieces)) ELSE r

is_ascii(text) == \A i \in 1..Len(text) : text[i] < 128

(***************************************************************************)
(* Outcomes of a constructor or of the parser: a tag, a ParseError, or a   *)
(* panic (a failed debug assertion, a slice out of range).                 *)
(***************************************************************************)
EntityTag(w, buffer) == [weak |-> w, tag |-> buffer]

Ok(t) == [kind |-> "Ok", err |-> "", weak |-> t.weak, tag |-> t.tag]
Err(e) == [kind |-> "Err", err |-> e, weak |-> FALSE, tag |-> StrBuf_new]
Panic == [kind |-> "Panic", err |-> "", weak |-> FALSE, tag |-> StrBuf_new]
None == [kind |-> "None", err |-> "", weak |-> FALSE, tag |-> StrBuf_new]

InvalidFormat == "InvalidFormat"
NotAscii == "NotAscii"
Overflow == "Overflow"

(***************************************************************************)
(* src/src/lib.rs: impl EntityTag                                          *)
(***************************************************************************)
\* debug_assert! and debug_assert_eq! panic only in a build with debug assertions.
new(dbg, w, t) ==
    LET r == push_str(StrBuf_new, t)
    IN  IF dbg /\ ~is_ascii(t) THEN Panic
        ELSE IF dbg /\ r.written # Len(t) THEN Panic
        ELSE Ok(EntityTag(w, r.buf))

weak(dbg, t) == new(dbg, TRUE, t)

strong(dbg, t) == new(dbg, FALSE, t)

\* checked_new returning the tag whatever push_str wrote.
checked_new_truncating(w, t) ==
    IF is_ascii(t)
    THEN LET r == push_str(StrBuf_new, t)
         IN  Ok(EntityTag(w, r.buf))
    ELSE Err(NotAscii)

\* checked_new testing the size before the bytes.
checked_new_overflow_first(w, t) ==
    LET r == push_str(StrBuf_new, t)
    IN  IF r.written # Len(t) THEN Err(Overflow)
        ELSE IF is_ascii(t) THEN Ok(EntityTag(w, r.buf))
        ELSE Err(NotAscii)

checked_new(w, t) ==
    IF is_ascii(t)
    THEN LET r == push_str(StrBuf_new, t)
         IN  IF r.written = Len(t) THEN Ok(EntityTag(w, r.buf)) ELSE Err(Overflow)
    ELSE Err(NotAscii)

checked_weak(t) == checked_new(TRUE, t)

checked_strong(t) == checked_new(FALSE, t)

tag(self) == StrBuf_as_str(self.tag)

\* strong_eq looking at the weak flag of self only.
strong_eq_self_only(self, other) ==
    ~self.weak /\ StrBuf_as_str(self.tag) = StrBuf_as_str(other.tag)

strong_eq(self, other) ==
    ~self.weak /\ ~other.weak /\ StrBuf_as_str(self.tag) = StrBuf_as_str(other.tag)

weak_eq(self, other) == StrBuf_as_str(self.tag) = StrBuf_as_str(other.tag)

strong_ne(self, other) == ~strong_eq(self, other)

weak_ne(self, other) == ~weak_eq(self, other)

\* #[derive(PartialEq)]: the fields are compared; StrBuf compares as_str().
EntityTag_eq(self, other) ==
    self.weak = other.weak /\ StrBuf_as_str(self.tag) = StrBuf_as_str(other.tag)

\* Result<EntityTag, ParseError> == Result<EntityTag, ParseError>
Result_eq(x, y) ==
    /\ x.kind = y.kind
    /\ x.kind = "Ok" => EntityTag_eq(x, y)
    /\ x.kind = "Err" => x.err = y.err

\* fmt without the closing double-quote.
fmt_no_closing_quote(self) ==
    LET s0 == IF self.weak THEN <<UpperW, Slash>> ELSE <<>>
        s1 == Append(s0, DQUOTE)
    IN  s1 \o StrBuf_as_str(self.tag)

\* impl fmt::Display for EntityTag, into the String of to_string().
fmt(self) ==
    LET s0 == IF self.weak THEN <<UpperW, Slash>> ELSE <<>>
        s1 == Append(s0, DQUOTE)
        s2 == s1 \o StrBuf_as_str(self.tag)
    IN  Append(s2, DQUOTE)

to_string(self) == fmt(self)

(***************************************************************************)
(* src/src/lib.rs: impl FromStr for EntityTag                              *)
(***************************************************************************)
ends_with(s, c) == Len(s) > 0 /\ s[Len(s)] = c

starts_with(s, p) == Len(s) >= Len(p) /\ SubSeq(s, 1, Len(p)) = p

\* &s[from..to]: panics when the range is out of order, out of the string or
\* off a character boundary.
slice(s, from, to) ==
    IF from > to \/ to > Len(s) \/ from < 0
       \/ ~is_char_boundary(s, from) \/ ~is_char_boundary(s, to)
    THEN [panic |-> TRUE, str |-> <<>>]
    ELSE [panic |-> FALSE, str |-> SubSeq(s, from + 1, to)]

\* from_str cutting the weak prefix one byte short.
from_str_short_prefix(text) ==
    LET len == Len(text)
    IN  IF ~ends_with(text, DQUOTE) \/ len < 2 THEN Err(InvalidFormat)
        ELSE IF starts_with(text, <<DQUOTE>>)
             THEN LET s == slice(text, 1, len - 1)
                  IN  IF s.panic THEN Panic ELSE checked_strong(s.str)
        ELSE IF len >= 4 /\ starts_with(text, <<UpperW, Slash, DQUOTE>>)
             THEN LET s == slice(text, 2, len - 1)
                  IN  IF s.panic THEN Panic ELSE checked_weak(s.str)
        ELSE Err(InvalidFormat)

\* from_str without the length test of the weak branch.
from_str_no_len_check(text) ==
    LET len == Len(text)
    IN  IF ~ends_with(text, DQUOTE) \/ len < 2 THEN Err(InvalidFormat)
        ELSE IF starts_with(text, <<DQUOTE>>)
             THEN LET s == slice(text, 1, len - 1)
                  IN  IF s.panic THEN Panic ELSE checked_strong(s.str)
        ELSE IF starts_with(text, <<UpperW, Slash, DQUOTE>>)
             THEN LET s == slice(text, 3, len - 1)
                  IN  IF s.panic THEN Panic ELSE checked_weak(s.str)
        ELSE Err(InvalidFormat)

from_str(text) ==
    LET len == Len(text)
    IN  IF ~ends_with(text, DQUOTE) \/ len < 2 THEN Err(InvalidFormat)
        ELSE IF starts_with(text, <<DQUOTE>>)
             THEN LET s == slice(text, 1, len - 1)
                  IN  IF s.panic THEN Panic ELSE checked_strong(s.str)
        ELSE IF len >= 4 /\ starts_with(text, <<UpperW, Slash, DQUOTE>>)
             THEN LET s == slice(text, 3, len - 1)
                  IN  IF s.panic THEN Panic ELSE checked_weak(s.str)
        ELSE Err(InvalidFormat)


(***************************************************************************)
(* src/src/lib.rs: from_hash.  A 64-bit number (bytes.len(), the hash) is  *)
(* kept as three limbs <<hi, mid, lo>> in base 10^9, hi * 10^18 + mid *    *)
(* 10^9 + lo, so that the largest one, 2^64 - 1, can be written.           *)
(***************************************************************************)
Limb == 10^9

U64_MAX == <<18, 446744073, 709551615>>

\* The decimal digits of 0 <= n < 10^9, without leading zeros.
RECURSIVE Digits(_)
Digits(n) ==
    IF n < 10 THEN <<Digit0 + n>>
    ELSE Append(Digits(n \div 10), Digit0 + (n % 10))

Padded(n) == LET d == Digits(n) IN Fill(Digit0, 9 - Len(d)) \o d

\* impl Display for u64 / usize
Display_u64(u) ==
    IF u[1] > 0 THEN Digits(u[1]) \o Padded(u[2]) \o Padded(u[3])
    ELSE IF u[2] > 0 THEN Digits(u[2]) \o Padded(u[3])
    ELSE Digits(u[3])

\* from_hash with the two arguments of write! exchanged.
from_hash_swapped(len, hash) ==
    LET r == write_fmt(StrBuf_new, <<Display_u64(hash), <<Minus>>, Display_u64(len)>>)
    IN  EntityTag(FALSE, r.buf)

\* from_hash(bytes), given bytes.len() and hash = wy::def_hash(bytes, SEED); the
\* outcome of write! is dropped (let _ =).
from_hash(len, hash) ==
    LET r == write_fmt(StrBuf_new, <<Display_u64(len), <<Minus>>, Display_u64(hash)>>)
    IN  EntityTag(FALSE, r.buf)

(***************************************************************************)
(* Inputs.                                                                 *)
(***************************************************************************)
PadLens == {0} \cup ((Capacity - NearCap)..(Capacity + OverCap))

\* Texts given to the constructors.
TagTexts == {Flatten(h) \o Fill(LowerA, n) : h \in CharSeqs(MaxHead - 1), n \in PadLens}

\* Texts given to the parser: every short text, and long ones around the capacity.
Tails == {<<>>, <<DQUOTE>>}
ParseTexts ==
    {Flatten(h) \o Fill(LowerA, n) \o t : h \in CharSeqs(MaxHead), n \in PadLens, t \in Tails}

\* Texts of the tags compared.
CmpTexts ==
    {Fill(Digit1, n) \o t : n \in {0, 1, Capacity - 1}, t \in {<<>>, <<Digit1>>, <<Digit2>>}}

\* Lengths of the bytes hashed and values of the hash.
U64Samples ==
    {<<0, 0, 0>>, <<0, 0, 2>>, <<0, 0, 27>>, <<0, 0, 243>>, <<0, 0, 999999999>>,
     <<0, 1, 0>>, <<0, 999999999, 999999999>>, <<1, 0, 0>>, <<9, 5, 40>>, U64_MAX}

NoCmp ==
    [aWeak |-> FALSE, aText |-> <<>>, bWeak |-> FALSE, bText |-> <<>>,
     strong_eq |-> FALSE, weak_eq |-> FALSE, strong_ne |-> FALSE, weak_ne |-> FALSE]

(***************************************************************************)
(* The state machine.                                                      *)
(***************************************************************************)
Init ==
    /\ debug \in BOOLEAN
    /\ op = "init"
    /\ argWeak = FALSE
    /\ argText = <<>>
    /\ made = None
    /\ wire = <<>>
    /\ parsed = None
    /\ cmp = NoCmp
    /\ hashLen = <<0, 0, 0>>
    /\ hashVal = <<0, 0, 0>>
    /\ buf = Buffer_new
    /\ before = Buffer_new
    /\ input = <<>>
    /\ ret = TRUE
    /\ concat = <<>>
    /\ calls = 0
    /\ rejected = 0

\* Each run is one chain of calls from the initial state: a constructor, the
\* parser, a comparison or from_hash, then what is done with its outcome.
\* A constructor was called with (w, t) and gave result.
Constructed(name, w, t, result) ==
    /\ op = "init"
    /\ op' = name
    /\ argWeak' = w
    /\ argText' = t
    /\ made' = result
    /\ wire' = <<>>
    /\ parsed' = None
    /\ cmp' = NoCmp
    /\ hashLen' = <<0, 0, 0>>
    /\ hashVal' = <<0, 0, 0>>
    /\ UNCHANGED <<debug, bufVars>>

New(w, t) == Constructed("new", w, t, new(debug, w, t))

Weak(t) == Constructed("weak", TRUE, t, weak(debug, t))

Strong(t) == Constructed("strong", FALSE, t, strong(debug, t))

CheckedNew(w, t) == Constructed("checked_new", w, t, checked_new(w, t))

CheckedWeak(t) == Constructed("checked_weak", TRUE, t, checked_weak(t))

CheckedStrong(t) == Constructed("checked_strong", FALSE, t, checked_strong(t))

ConstructorOps == {"new", "weak", "strong", "checked_new", "checked_weak", "checked_strong"}

\* tag.to_string() on the tag the last constructor returned.
ToString ==
    /\ op \in ConstructorOps
    /\ made.kind = "Ok"
    /\ op' = "to_string"
    /\ wire' = to_string(made)
    /\ UNCHANGED <<debug, argWeak, argText, made, parsed, cmp, hashLen, hashVal, bufVars>>

\* text_etag.parse::<EntityTag>() on the text to_string() gave.
ParseWire ==
    /\ op = "to_string"
    /\ op' = "parse_wire"
    /\ parsed' = from_str(wire)
    /\ UNCHANGED <<debug, argWeak, argText, made, wire, cmp, hashLen, hashVal, bufVars>>

\* text.parse::<EntityTag>() on any text.
Parse(text) ==
    /\ op = "init"
    /\ op' = "parse"
    /\ argWeak' = FALSE
    /\ argText' = text
    /\ made' = None
    /\ wire' = <<>>
    /\ parsed' = from_str(text)
    /\ cmp' = NoCmp
    /\ hashLen' = <<0, 0, 0>>
    /\ hashVal' = <<0, 0, 0>>
    /\ UNCHANGED <<debug, bufVars>>

\* The four comparison predicates on two tags.
Compare(w1, t1, w2, t2) ==
    LET a == new(debug, w1, t1)
        b == new(debug, w2, t2)
    IN  /\ op = "init"
        /\ op' = "cmp"
        /\ cmp' = [aWeak |-> w1, aText |-> t1, bWeak |-> w2, bText |-> t2,
                   strong_eq |-> strong_eq(a, b), weak_eq |-> weak_eq(a, b),
                   strong_ne |-> strong_ne(a, b), weak_ne |-> weak_ne(a, b)]
        /\ argWeak' = FALSE
        /\ argText' = <<>>
        /\ made' = None
        /\ wire' = <<>>
        /\ parsed' = None
        /\ hashLen' = <<0, 0, 0>>
        /\ hashVal' = <<0, 0, 0>>
        /\ UNCHANGED <<debug, bufVars>>

\* from_hash(bytes): the hash function returns some 64-bit value for the bytes.
FromHash(len, hash) ==
    /\ op = "init"
    /\ op' = "from_hash"
    /\ hashLen' = len
    /\ hashVal' = hash
    /\ made' = Ok(from_hash(len, hash))
    /\ argWeak' = FALSE
    /\ argText' = <<>>
    /\ wire' = <<>>
    /\ parsed' = None
    /\ cmp' = NoCmp
    /\ UNCHANGED <<debug, bufVars>>

\* A second, independent from_hash call on the same bytes: the hash function is
\* deterministic, so it returns the same value for them.
FromHashAgain ==
    /\ op = "from_hash"
    /\ op' = "from_hash_again"
    /\ parsed' = Ok(from_hash(hashLen, hashVal))
    /\ UNCHANGED <<debug, argWeak, argText, made, wire, cmp, hashLen, hashVal, bufVars>>

Next ==
    \/ op = "init" /\ \E w \in BOOLEAN, t \in TagTexts : New(w, t)
    \/ op = "init" /\ \E t \in TagTexts : Weak(t)
    \/ op = "init" /\ \E t \in TagTexts : Strong(t)
    \/ op = "init" /\ \E w \in BOOLEAN, t \in TagTexts : CheckedNew(w, t)
    \/ op = "init" /\ \E t \in TagTexts : CheckedWeak(t)
    \/ op = "init" /\ \E t \in TagTexts : CheckedStrong(t)
    \/ op = "init" /\ \E text \in ParseTexts : Parse(text)
    \/ op = "init" /\ \E w1 \in BOOLEAN, w2 \in BOOLEAN, t1 \in CmpTexts, t2 \in CmpTexts :
                         Compare(w1, t1, w2, t2)
    \/ op = "init" /\ \E len \in U64Samples, hash \in U64Samples : FromHash(len, hash)
    \/ ToString
    \/ ParseWire
    \/ FromHashAgain

Spec == Init /\ [][Next]_vars

\* buffer.rs: one write_bytes call on the buffer.
WriteBytes(bytes) ==
    LET r == write_bytes(buf, bytes)
    IN  /\ calls < MaxCalls
        /\ before' = buf
        /\ input' = bytes
        /\ buf' = r.buf
        /\ ret' = r.ret
        /\ concat' = IF r.ret THEN concat \o bytes ELSE concat
        /\ calls' = calls + 1
        /\ rejected' = IF r.ret THEN rejected ELSE rejected + 1
        /\ UNCHANGED <<debug, tagVars>>

BufferNext == \E bytes \in WriteInputs : WriteBytes(bytes)

BufferSpec == Init /\ [][BufferNext]_vars


(***************************************************************************)
(* Properties.                                                             *)
(***************************************************************************)
CheckedOps == {"checked_new", "checked_weak", "checked_strong"}

StrongPrefix == <<DQUOTE>>
WeakPrefix == <<UpperW, Slash, DQUOTE>>

\* text is "<interior>" or W/"<interior>".
WellQuoted(text) ==
    \/ Len(text) >= 2 /\ text[1] = DQUOTE /\ text[Len(text)] = DQUOTE
    \/ Len(text) >= 4 /\ SubSeq(text, 1, 3) = WeakPrefix /\ text[Len(text)] = DQUOTE

QuotedWeak(text) == text[1] # DQUOTE

Interior(text) ==
    IF QuotedWeak(text) THEN SubSeq(text, 4, Len(text) - 1)
    ELSE SubSeq(text, 2, Len(text) - 1)

Supplied == IF op = "parse" THEN Interior(argText) ELSE argText
Outcome == IF op = "parse" THEN parsed ELSE made
Unfit(t) == Len(t) > Capacity \/ ~is_ascii(t)

TypedError(o) == o.kind = "Err" /\ o.err \in {Overflow, NotAscii}

\* C3 as claimed: every constructor and the parser answer text that is too long or
\* not ASCII with Overflow or NotAscii, and return no tag whose text differs from
\* the text supplied.
NoSilentTruncation ==
    (op \in ConstructorOps \/ (op = "parse" /\ WellQuoted(argText))) =>
        /\ Unfit(Supplied) => TypedError(Outcome)
        /\ Outcome.kind = "Ok" => tag(Outcome) = Supplied

\* C3 as amended: the checked constructors and the parser do so; new, weak and
\* strong never give a typed error, and panic on such text under debug assertions.
NoSilentTruncationChecked ==
    /\ (op \in CheckedOps \/ (op = "parse" /\ WellQuoted(argText))) =>
          /\ Unfit(Supplied) => TypedError(Outcome)
          /\ Outcome.kind = "Ok" => tag(Outcome) = Supplied
    /\ op \in {"new", "weak", "strong"} =>
          /\ made.kind # "Err"
          /\ (debug /\ Unfit(argText)) => made = Panic

\* checked_strong was given ASCII text of more than 64 bytes.
NoSilentTruncationWitness ==
    /\ op = "checked_strong"
    /\ is_ascii(argText)
    /\ Len(argText) > Capacity
    /\ made = Err(Overflow)

\* C4: strong_eq holds iff neither tag is weak and the texts are equal, weak_eq iff
\* the texts are equal, and strong_ne and weak_ne are their negations.
ComparisonTable ==
    op = "cmp" =>
        /\ cmp.strong_eq <=> (~cmp.aWeak /\ ~cmp.bWeak /\ cmp.aText = cmp.bText)
        /\ cmp.weak_eq <=> (cmp.aText = cmp.bText)
        /\ cmp.strong_ne <=> ~cmp.strong_eq
        /\ cmp.weak_ne <=> ~cmp.weak_eq

\* weak("1") was compared with strong("1"): no strong match, a weak match.
ComparisonWitness ==
    /\ op = "cmp"
    /\ cmp.aWeak /\ ~cmp.bWeak
    /\ cmp.aText = <<Digit1>> /\ cmp.bText = <<Digit1>>
    /\ ~cmp.strong_eq /\ cmp.weak_eq /\ cmp.strong_ne /\ ~cmp.weak_ne

\* C5: parse never panics, and it returns InvalidFormat exactly when the text is
\* shorter than 2, or does not end with a double-quote, or neither starts with a
\* double-quote nor has length >= 4 and starts with W/".
InvalidFormatExactly ==
    op = "parse" =>
        /\ parsed.kind # "Panic"
        /\ parsed = Err(InvalidFormat) <=>
              \/ Len(argText) < 2
              \/ argText[Len(argText)] # DQUOTE
              \/ /\ argText[1] # DQUOTE
                 /\ ~(Len(argText) >= 4 /\ SubSeq(argText, 1, 3) = WeakPrefix)

\* The three bytes W/" were parsed and rejected.
InvalidFormatWitness ==
    /\ op = "parse"
    /\ argText = WeakPrefix
    /\ parsed = Err(InvalidFormat)

\* C6: the length never exceeds 64, the content is the concatenation of the inputs
\* of the calls that returned true, and a call returns false exactly when its input
\* is longer than the room left before it, leaving the buffer as it was.
BufferAppend ==
    /\ buf.len <= MAX_SIZE
    /\ as_str(buf) = concat
    /\ calls > 0 =>
          /\ ret = FALSE <=> Len(input) > MAX_SIZE - before.len
          /\ ret = FALSE => buf = before
          /\ ret = TRUE => as_str(buf) = as_str(before) \o input

\* After a call was refused, a later call that fits filled the buffer to its capacity.
BufferAppendWitness ==
    /\ rejected > 0
    /\ ret = TRUE
    /\ input # <<>>
    /\ before.len > 0
    /\ buf.len = MAX_SIZE

\* C7: the formatted text is W/"<text>" for a weak tag and "<text>" for a strong
\* one, the tag's text unchanged between the quotes.
Formatting ==
    op = "to_string" =>
        /\ wire = (IF made.weak THEN <<UpperW, Slash>> ELSE <<>>)
                     \o <<DQUOTE>> \o tag(made) \o <<DQUOTE>>
        /\ (is_ascii(argText) /\ Len(argText) <= Capacity) =>
              wire = (IF argWeak THEN <<UpperW, Slash>> ELSE <<>>)
                        \o <<DQUOTE>> \o argText \o <<DQUOTE>>

\* weak("") was formatted as W/ and two double-quotes.
FormattingWitness ==
    /\ op = "to_string"
    /\ argWeak
    /\ argText = <<>>
    /\ wire = <<UpperW, Slash, DQUOTE, DQUOTE>>

\* C8: checked_new answers any text with a non-ASCII byte with NotAscii, whatever
\* its length, and so does parse for a well-quoted text whose interior has one.
NonAsciiRejected ==
    /\ (op \in CheckedOps /\ ~is_ascii(argText)) => made = Err(NotAscii)
    /\ (op = "parse" /\ WellQuoted(argText) /\ ~is_ascii(Interior(argText))) =>
          parsed = Err(NotAscii)

\* checked_new was given a non-ASCII text longer than the capacity.
NonAsciiWitness ==
    /\ op = "checked_new"
    /\ ~is_ascii(argText)
    /\ Len(argText) > Capacity
    /\ made = Err(NotAscii)

\* C9: from_hash gives a strong tag whose text is the decimal length, a '-' and the
\* decimal hash, in full, and a second call on the same bytes gives an equal tag.
FromHashText ==
    /\ op \in {"from_hash", "from_hash_again"} =>
          /\ made.kind = "Ok"
          /\ ~made.weak
          /\ tag(made) = Display_u64(hashLen) \o <<Minus>> \o Display_u64(hashVal)
          /\ (hashLen = <<0, 0, 27>> /\ hashVal = <<0, 1, 0>>) =>
                tag(made) = <<50, 55, 45, 49, 48, 48, 48, 48, 48, 48, 48, 48, 48>>
          /\ (hashLen = <<0, 0, 0>> /\ hashVal = U64_MAX) =>
                tag(made) = <<48, 45, 49, 56, 52, 52, 54, 55, 52, 52, 48, 55, 51,
                              55, 48, 57, 53, 53, 49, 54, 49, 53>>
    /\ op = "from_hash_again" => EntityTag_eq(made, parsed) /\ parsed.kind = "Ok"

\* Bytes of the largest length with the largest hash value were hashed twice: the
\* text has 20 + 1 + 20 bytes.
FromHashWitness ==
    /\ op = "from_hash_again"
    /\ hashLen = U64_MAX
    /\ hashVal = U64_MAX
    /\ Len(tag(made)) = 41
    /\ Len(tag(parsed)) = 41

\* C10: the test suite's size limit: a double-quoted ASCII interior of 62 bytes
\* parses to the strong tag of that interior, and one of 63 bytes fails with Overflow.
TestSizeLimit ==
    (op = "parse" /\ Len(argText) >= 2 /\ argText[1] = DQUOTE
        /\ argText[Len(argText)] = DQUOTE /\ is_ascii(argText)) =>
        /\ Len(Interior(argText)) = TEST_MAX =>
              Result_eq(parsed, checked_strong(Interior(argText))) /\ parsed.kind = "Ok"
        /\ Len(Interior(argText)) = TEST_MAX + 1 => parsed = Err(Overflow)

====
